---- MODULE Spec2Model ----
(***************************************************************************)
(* State-machine model of the ash_renderer frame loop: the host thread     *)
(* (App::window_event, Renderer::draw_frame, record_submit_commandbuffer,  *)
(* the rebuild of the resize dependent components) running against an     *)
(* asynchronous GPU queue and presentation engine.                         *)
(***************************************************************************)
EXTENDS Integers, Sequences, FiniteSets, TLC

\* ---------------------------------------------------------------- bounds
\* number of images the swapchain realizes (get_swapchain_images)
NumImages == 2
\* cap on the number of RedrawRequested events handled
MaxFrames == 3
\* cap on the generation number of the resize dependent components
MaxGen == 2

ImageIndices == 0 .. (NumImages - 1)

\* ------------------------------------------------------------- names
CommandBuffers == {"draw", "setup"}
Semaphores == {"present_complete", "rendering_complete"}
ResourceKinds ==
    {"swapchain", "present_image_views", "depth_image", "depth_image_memory", "depth_image_view"}
\* the other objects Renderer::new creates from the device
DeviceObjects ==
    {"pool", "draw_commands_reuse_fence", "setup_commands_reuse_fence",
     "present_complete_semaphore", "rendering_complete_semaphore",
     "index_buffer", "index_buffer_memory", "vertex_input_buffer",
     "vertex_input_buffer_memory", "vertex_shader_module", "fragment_shader_module",
     "pipeline_layout", "graphics_pipeline"}

VARIABLES
    pc,          \* position of the host thread
    cur,         \* command buffer / fence pair record_submit_commandbuffer was called with
    fence,       \* fence[c]: TRUE = signaled
    cmdbuf,      \* cmdbuf[c]: "initial" | "recording" | "executable" | "pending" | "invalid"
    cmds,        \* cmds[c]: the commands recorded into c
    queue,       \* operations queued on present_queue and not yet executed
    sem,         \* sem[s]: unconsumed signals of binary semaphore s
    img,         \* img[i]: "pe" (owned by the presentation engine) | "app" (acquired)
    relPending,  \* acquired images the presentation engine has not released yet
    drawn,       \* drawn[i]: a draw submission has written image i since its acquire
    present_index, \* image index returned by the last successful acquire
    acquireResult, \* result of acquire_next_image in the current frame
    presentResult, \* result of queue_present in the current frame
    rebuild_needed, \* Renderer::resize_dependent_component_rebuild_needed
    res,         \* res[k]: generation of the live object of kind k, 0 = destroyed
    gen,         \* generation of the resize dependent components being built / in use
    frames,      \* number of draw_frame calls started
    frameLog     \* device calls issued by the handler that runs or ran last

\* the frame loop
frameVars == <<pc, cur, fence, cmdbuf, cmds, queue, sem, img, relPending, drawn, present_index,
               acquireResult, presentResult, rebuild_needed, res, gen, frames, frameLog>>

VARIABLES
    spos,            \* position of the host in the construction of the surface dependent objects
    overflow_checks, \* TRUE: the build panics on integer overflow, FALSE: it wraps
    extent_defined,  \* TRUE: the surface reports its current extent, FALSE: the sentinel
    image_counts,    \* min_image_count / max_image_count of the surface capabilities
    inner_size,      \* window.inner_size()
    sets,            \* the surface dependent sets built, the last two, newest last
    present_image_views, \* number of image views of the current swapchain
    descriptor       \* DescriptorComponents: buffer and set counts, pool sizes, set bindings

\* the construction of the surface dependent objects
surfaceVars == <<spos, overflow_checks, extent_defined, image_counts, inner_size, sets,
                 present_image_views, descriptor>>

VARIABLES
    destroys         \* destroys[o]: destroy / free calls issued on device object o

\* the teardown
teardownVars == <<destroys>>

VARIABLES
    bpos,            \* position of the host in the use of the typed buffers
    elem_size,       \* size_of::<T>()
    alignment,       \* alignment of the memory requirements of a buffer
    params,          \* params[b]: the arguments Buffer::new is called with for buffer b
    live,            \* live[b]: "none" | "live" | "destroyed"
    memory,          \* elements held by the mapped memory of the staging buffer
    writes,          \* number of write_data_direct calls
    last_data,       \* data of the last write_data_direct call
    write_outcome,   \* how the last write_data_direct call ended
    copy_regions     \* sizes of the regions of the cmd_copy_buffer last recorded

\* the typed buffers
bufferVars == <<bpos, elem_size, alignment, params, live, memory, writes, last_data,
                write_outcome, copy_regions>>

VARIABLES
    redraw_requested, \* a redraw requested with window.request_redraw() is outstanding
    camera,          \* App::camera
    controller,      \* App::camera_controller
    motions,         \* the MouseMotion deltas received since the last update_camera
    updates          \* number of update_camera calls

\* the windowing shell and the camera
shellVars == <<redraw_requested, camera, controller, motions, updates>>

\* everything the frame loop leaves alone
nonFrameVars == <<surfaceVars, teardownVars, bufferVars, shellVars>>

vars == <<frameVars, nonFrameVars>>

\* the surface dependent objects are not under construction
SurfaceOff ==
    /\ spos = "off"
    /\ overflow_checks = FALSE
    /\ extent_defined = FALSE
    /\ image_counts = [min_image_count |-> [hi |-> 0, lo |-> 0],
                       max_image_count |-> [hi |-> 0, lo |-> 0]]
    /\ inner_size = [width |-> [hi |-> 0, lo |-> 0], height |-> [hi |-> 0, lo |-> 0]]
    /\ sets = <<>>
    /\ present_image_views = 0
    /\ descriptor = [uniform_buffers |-> 0, descriptor_sets |-> 0, max_sets |-> 0,
                    pool_sizes |-> <<>>, set_buffers |-> <<>>]

\* ------------------------------------------------------------ helpers
RemoveAt(s, k) == SubSeq(s, 1, k - 1) \o SubSeq(s, k + 1, Len(s))

Log(call) == frameLog' = Append(frameLog, call)

\* positions of the first submission (draw/setup) and of the first present in the queue
SubmitPositions == {k \in 1 .. Len(queue) : queue[k].kind # "present"}
PresentPositions == {k \in 1 .. Len(queue) : queue[k].kind = "present"}
FirstOf(S) == CHOOSE k \in S : \A j \in S : k <= j

InFlight(c) == \E k \in 1 .. Len(queue) : queue[k].kind # "present" /\ queue[k].cb = c

\* A signal operation on a binary semaphore.  Signalling a semaphore that
\* still holds an unconsumed signal is invalid usage: the signal is either
\* lost or kept, whichever the implementation does.
SignalOutcomes(v) == IF v = 0 THEN {1} ELSE {v, v + 1}

\* ------------------------------------------------- call-site arguments
\* arguments record_submit_commandbuffer is called with: by draw_frame for
\* the draw command buffer, by the depth image construction for the setup one
wait_semaphores(c) == IF c = "draw" THEN {"present_complete"} ELSE {}
wait_mask(c) == IF c = "draw" THEN {"COLOR_ATTACHMENT_OUTPUT"} ELSE {}
\* every submission signals rendering_complete
signal_semaphores_always(c) == {"rendering_complete"}
signal_semaphores(c) == IF c = "draw" THEN {"rendering_complete"} ELSE {}
\* the commands the caller's closure records
submission_function(c) ==
    IF c = "draw"
    THEN <<"begin_rendering", "set_scissor", "bind_vertex_buffers",
           "bind_index_buffer", "draw_indexed", "end_rendering">>
    ELSE <<"pipeline_barrier">>
\* PresentInfoKHR built by draw_frame
present_wait_semaphores == {"rendering_complete"}

\* a submission that takes the fence of the other command buffer
SubmitOp_other_fence(c) ==
    [kind |-> c, cb |-> c, fence |-> IF c = "draw" THEN "setup" ELSE "draw",
     wait |-> wait_semaphores(c), stage |-> wait_mask(c),
     signal |-> signal_semaphores(c), image |-> present_index, gen |-> gen, cmds |-> cmds[c]]

\* queue_submit(submit_queue, &[submit_info], command_buffer_reuse_fence)
SubmitOp(c) ==
    [kind |-> c, cb |-> c, fence |-> c, wait |-> wait_semaphores(c), stage |-> wait_mask(c),
     signal |-> signal_semaphores(c), image |-> present_index, gen |-> gen, cmds |-> cmds[c]]

PresentOp ==
    [kind |-> "present", cb |-> "none", fence |-> "none", wait |-> present_wait_semaphores,
     stage |-> {}, signal |-> {}, image |-> present_index, gen |-> gen, cmds |-> <<>>]

\* ---------------------------------------------------------------- Init
\* The state Renderer::new leaves: every object of generation 1 built, both
\* fences created signaled, the setup submission that transitions the depth
\* image submitted (it reset the setup fence) and possibly still executing.
FrameInit ==
    /\ pc = "idle"
    /\ cur = "setup"
    /\ fence = [c \in CommandBuffers |-> c = "draw"]
    /\ cmdbuf = [c \in CommandBuffers |-> IF c = "setup" THEN "pending" ELSE "initial"]
    /\ cmds = [c \in CommandBuffers |-> IF c = "setup" THEN submission_function(c) ELSE <<>>]
    /\ queue = <<[kind |-> "setup", cb |-> "setup", fence |-> "setup", wait |-> {}, stage |-> {},
                  signal |-> {}, image |-> 0, gen |-> 1, cmds |-> submission_function("setup")]>>
    /\ sem = [s \in Semaphores |-> 0]
    /\ img = [i \in ImageIndices |-> "pe"]
    /\ relPending = {}
    /\ drawn = [i \in ImageIndices |-> FALSE]
    /\ present_index = 0
    /\ acquireResult = "none"
    /\ presentResult = "none"
    /\ rebuild_needed = FALSE
    /\ res = [k \in ResourceKinds |-> 1]
    /\ gen = 1
    /\ frames = 0
    /\ frameLog = <<>>

\* nothing has been destroyed
TeardownInit == destroys = [o \in DeviceObjects |-> 0]

\* no typed buffer is in use
BufferOff ==
    /\ bpos = "off"
    /\ elem_size = 1
    /\ alignment = 1
    /\ params = <<>>
    /\ live = <<>>
    /\ memory = <<>>
    /\ writes = 0
    /\ last_data = <<>>
    /\ write_outcome = "none"
    /\ copy_regions = <<>>

\* ------------------------------------------------------------- the camera
\* Angles are kept in hundredths of a radian and lengths in hundredths of a
\* unit, the step CameraController::new(0.01, 0.01) gives both; the position
\* is kept as the distance moved along the forward and the right vector.

\* Camera::new(): phi = PI / 2, theta = 0, position the origin
Camera_new == [position |-> [forward |-> 0, right |-> 0], phi |-> 157, theta |-> 0]

\* CameraController::new(speed, mouse_sens)
CameraController_new(speed, mouse_sens) ==
    [speed |-> speed, mouse_sens |-> mouse_sens, mouse_delta_x |-> 0, mouse_delta_y |-> 0,
     forward_pressed |-> FALSE, backward_pressed |-> FALSE, left_pressed |-> FALSE,
     right_pressed |-> FALSE]

\* update_camera, what it does to the camera: the position moves by speed for
\* every pressed key, the angles by the accumulated deltas times mouse_sens
update_camera(cam, ctl) ==
    [position |->
        [forward |-> cam.position.forward + (IF ctl.forward_pressed THEN ctl.speed ELSE 0)
                        - (IF ctl.backward_pressed THEN ctl.speed ELSE 0),
         right |-> cam.position.right - (IF ctl.left_pressed THEN ctl.speed ELSE 0)
                        + (IF ctl.right_pressed THEN ctl.speed ELSE 0)],
     phi |-> cam.phi + ctl.mouse_delta_y * ctl.mouse_sens,
     theta |-> cam.theta + ctl.mouse_delta_x * ctl.mouse_sens]

\* accumulators that are left as they are
accumulators_kept(ctl) == ctl

\* update_camera, what it does to the controller:
\* self.mouse_delta_x = 0.0; self.mouse_delta_y = 0.0
reset_accumulators(ctl) == [ctl EXCEPT !.mouse_delta_x = 0, !.mouse_delta_y = 0]

\* window.request_redraw(): a redraw is outstanding
request_redraw == TRUE

\* App::resumed: the camera and its controller are new, a redraw is requested
ShellInit ==
    /\ redraw_requested = request_redraw
    /\ camera = Camera_new
    /\ controller = CameraController_new(1, 1)
    /\ motions = <<>>
    /\ updates = 0

Init == FrameInit /\ SurfaceOff /\ TeardownInit /\ BufferOff /\ ShellInit

\* ------------------------------------------- record_submit_commandbuffer
\* a wait that returns at once, whatever the state of the fence
wait_for_fences_no_wait(f) == TRUE

\* wait_for_fences(.., true, u64::MAX) returns once the fence is signaled
wait_for_fences(f) == fence[f]

\* a reset that is left out: the fence keeps its state
reset_fences_omitted(f) == fence

\* reset_fences: the fence becomes unsignaled
reset_fences(f) == [fence EXCEPT ![f] = FALSE]

RS_WaitForFences ==
    /\ UNCHANGED nonFrameVars
    /\ pc = "rs_wait"
    /\ wait_for_fences(cur)
    /\ pc' = "rs_reset_fence"
    /\ Log("wait_for_fences")
    /\ UNCHANGED <<cur, fence, cmdbuf, cmds, queue, sem, img, relPending, drawn, present_index,
                   acquireResult, presentResult, rebuild_needed, res, gen, frames>>

RS_ResetFences ==
    /\ UNCHANGED nonFrameVars
    /\ pc = "rs_reset_fence"
    /\ fence' = reset_fences(cur)
    /\ pc' = "rs_reset_cb"
    /\ Log("reset_fences")
    /\ UNCHANGED <<cur, cmdbuf, cmds, queue, sem, img, relPending, drawn, present_index,
                   acquireResult, presentResult, rebuild_needed, res, gen, frames>>

RS_ResetCommandBuffer ==
    /\ UNCHANGED nonFrameVars
    /\ pc = "rs_reset_cb"
    /\ cmdbuf' = [cmdbuf EXCEPT ![cur] = "initial"]
    /\ cmds' = [cmds EXCEPT ![cur] = <<>>]
    /\ pc' = "rs_record"
    /\ Log("reset_command_buffer")
    /\ UNCHANGED <<cur, fence, queue, sem, img, relPending, drawn, present_index,
                   acquireResult, presentResult, rebuild_needed, res, gen, frames>>

\* begin_command_buffer(ONE_TIME_SUBMIT); submission_function; end_command_buffer
RS_Record ==
    /\ UNCHANGED nonFrameVars
    /\ pc = "rs_record"
    /\ cmdbuf' = [cmdbuf EXCEPT ![cur] = "executable"]
    /\ cmds' = [cmds EXCEPT ![cur] = submission_function(cur)]
    /\ pc' = "rs_submit"
    /\ Log("record")
    /\ UNCHANGED <<cur, fence, queue, sem, img, relPending, drawn, present_index,
                   acquireResult, presentResult, rebuild_needed, res, gen, frames>>

\* queue_submit with the reuse fence; control returns to the caller
RS_QueueSubmit ==
    /\ UNCHANGED nonFrameVars
    /\ pc = "rs_submit"
    /\ queue' = Append(queue, SubmitOp(cur))
    /\ cmdbuf' = [cmdbuf EXCEPT ![cur] = "pending"]
    /\ pc' = IF cur = "draw" THEN "present" ELSE "new_depth_view"
    /\ Log("queue_submit")
    /\ UNCHANGED <<cur, fence, cmds, sem, img, relPending, drawn, present_index,
                   acquireResult, presentResult, rebuild_needed, res, gen, frames>>

\* ------------------------------------------------------ App::window_event
\* WindowEvent::Resized: only sets the flag
Resized ==
    /\ UNCHANGED nonFrameVars
    /\ pc = "idle"
    /\ rebuild_needed' = TRUE
    /\ UNCHANGED <<pc, cur, fence, cmdbuf, cmds, queue, sem, img, relPending, drawn,
                   present_index, acquireResult, presentResult, res, gen, frames, frameLog>>

\* WindowEvent::RedrawRequested: the outstanding request is taken, the
\* camera is updated, draw_frame is entered.  The windowing system may also
\* deliver the event unrequested.
RedrawRequested ==
    /\ UNCHANGED <<surfaceVars, teardownVars, bufferVars>>
    /\ pc = "idle"
    /\ frames < MaxFrames
    /\ frames' = frames + 1
    /\ redraw_requested' = FALSE
    /\ camera' = update_camera(camera, controller)
    /\ controller' = reset_accumulators(controller)
    /\ motions' = <<>>
    /\ updates' = updates + 1
    /\ pc' = "acquire"
    /\ frameLog' = <<"update_camera">>
    /\ acquireResult' = "none"
    /\ presentResult' = "none"
    /\ UNCHANGED <<cur, fence, cmdbuf, cmds, queue, sem, img, relPending, drawn, present_index,
                   rebuild_needed, res, gen>>

\* ------------------------------------------------------ Renderer::draw_frame
\* acquire_next_image(swapchain, u64::MAX, present_complete_semaphore, null).unwrap()
\* Ok((index, suboptimal)): the index is kept, the suboptimal indication dropped.
\* Err(_), ERROR_OUT_OF_DATE_KHR included: unwrap panics.
AcquireResults == {"success", "suboptimal", "out_of_date", "error"}

DF_AcquireNextImage ==
    /\ UNCHANGED nonFrameVars
    /\ pc = "acquire"
    /\ Log("acquire_next_image")
    /\ \E r \in AcquireResults :
        /\ acquireResult' = r
        /\ IF r \in {"success", "suboptimal"}
           THEN \E i \in ImageIndices :
                    /\ img[i] = "pe"
                    /\ img' = [img EXCEPT ![i] = "app"]
                    /\ relPending' = relPending \cup {i}
                    /\ drawn' = [drawn EXCEPT ![i] = FALSE]
                    /\ present_index' = i
                    /\ cur' = "draw"
                    /\ pc' = "rs_wait"
           ELSE /\ pc' = "panicked"
                /\ UNCHANGED <<img, relPending, drawn, present_index, cur>>
    /\ UNCHANGED <<fence, cmdbuf, cmds, queue, sem, presentResult, rebuild_needed, res, gen,
                   frames>>

\* queue_present(present_queue, &present_info).expect(..)
\* Ok(suboptimal): the indication is dropped.  Err(_): expect panics.
PresentResults == {"success", "suboptimal", "out_of_date", "error"}

\* draw_frame returns to the handler, which requests the next redraw.
DF_QueuePresent ==
    /\ UNCHANGED <<surfaceVars, teardownVars, bufferVars>>
    /\ UNCHANGED <<camera, controller, motions, updates>>
    /\ pc = "present"
    /\ \E r \in PresentResults :
        /\ presentResult' = r
        /\ IF r \in {"success", "suboptimal"}
           THEN /\ queue' = Append(queue, PresentOp)
                /\ pc' = "idle"
                /\ redraw_requested' = request_redraw
                /\ frameLog' = frameLog \o <<"queue_present", "request_redraw">>
           ELSE /\ pc' = "panicked"
                /\ Log("queue_present")
                /\ UNCHANGED <<queue, redraw_requested>>
    /\ UNCHANGED <<cur, fence, cmdbuf, cmds, sem, img, relPending, drawn, present_index,
                   acquireResult, rebuild_needed, res, gen, frames>>

\* ------------------------------------------------- GPU and presentation engine
\* The queue starts submissions in submission order; a submission runs once
\* its wait semaphores are signaled, then signals its semaphores and fence.
GPU_ExecuteSubmit ==
    /\ UNCHANGED nonFrameVars
    /\ SubmitPositions # {}
    /\ LET k == FirstOf(SubmitPositions)
           op == queue[k]
       IN  /\ \A s \in op.wait : sem[s] >= 1
           /\ \E nsem \in [Semaphores -> 0 .. (MaxFrames + 1)] :
                /\ \A s \in Semaphores :
                     nsem[s] \in IF s \in op.signal
                                 THEN SignalOutcomes(sem[s])
                                 ELSE IF s \in op.wait THEN {sem[s] - 1} ELSE {sem[s]}
                /\ sem' = nsem
           /\ fence' = [fence EXCEPT ![op.fence] = TRUE]
           /\ cmdbuf' = [cmdbuf EXCEPT ![op.cb] = IF @ = "pending" THEN "invalid" ELSE @]
           /\ drawn' = IF op.kind = "draw" THEN [drawn EXCEPT ![op.image] = TRUE] ELSE drawn
           /\ queue' = RemoveAt(queue, k)
    /\ UNCHANGED <<pc, cur, cmds, img, relPending, present_index, acquireResult, presentResult,
                   rebuild_needed, res, gen, frames, frameLog>>

\* A present request is ordered against submissions by its wait semaphores
\* only; executing it hands the image back to the presentation engine.
GPU_ExecutePresent ==
    /\ UNCHANGED nonFrameVars
    /\ PresentPositions # {}
    /\ LET k == FirstOf(PresentPositions)
           op == queue[k]
       IN  /\ \A s \in op.wait : sem[s] >= 1
           /\ sem' = [s \in Semaphores |-> IF s \in op.wait THEN sem[s] - 1 ELSE sem[s]]
           /\ img' = [img EXCEPT ![op.image] = "pe"]
           /\ queue' = RemoveAt(queue, k)
    /\ UNCHANGED <<pc, cur, fence, cmdbuf, cmds, relPending, drawn, present_index,
                   acquireResult, presentResult, rebuild_needed, res, gen, frames, frameLog>>

\* The presentation engine releases an acquired image and signals the
\* semaphore acquire_next_image was given.
PE_ReleaseImage ==
    /\ UNCHANGED nonFrameVars
    /\ \E i \in relPending :
        /\ relPending' = relPending \ {i}
        /\ \E v \in SignalOutcomes(sem["present_complete"]) :
             sem' = [sem EXCEPT !["present_complete"] = v]
    /\ UNCHANGED <<pc, cur, fence, cmdbuf, cmds, queue, img, drawn, present_index,
                   acquireResult, presentResult, rebuild_needed, res, gen, frames, frameLog>>

\* ------------------------------------- rebuild of the resize dependent components
\* an idle wait that returns at once
device_wait_idle_no_wait == TRUE

\* device_wait_idle returns once nothing submitted to the device is unfinished
device_wait_idle == queue = <<>>

\* The rebuild procedure, first half: cleanup_resize_dependent_components is
\* called on the current set.
Rebuild_Cleanup ==
    /\ UNCHANGED nonFrameVars
    /\ pc = "idle"
    /\ gen < MaxGen
    /\ pc' = "cleanup_depth_wait"
    /\ frameLog' = <<>>
    /\ UNCHANGED <<cur, fence, cmdbuf, cmds, queue, sem, img, relPending, drawn, present_index,
                   acquireResult, presentResult, rebuild_needed, res, gen, frames>>

\* cleanup_resize_dependent_components, first call: the depth image components
DepthCleanup_WaitIdle ==
    /\ UNCHANGED nonFrameVars
    /\ pc = "cleanup_depth_wait"
    /\ device_wait_idle
    /\ pc' = "cleanup_depth_destroy"
    /\ Log("device_wait_idle")
    /\ UNCHANGED <<cur, fence, cmdbuf, cmds, queue, sem, img, relPending, drawn, present_index,
                   acquireResult, presentResult, rebuild_needed, res, gen, frames>>

DepthCleanup_Destroy ==
    /\ UNCHANGED nonFrameVars
    /\ pc = "cleanup_depth_destroy"
    /\ res' = [res EXCEPT !["depth_image_view"] = 0, !["depth_image"] = 0,
                          !["depth_image_memory"] = 0]
    /\ pc' = "cleanup_swapchain_wait"
    /\ frameLog' = frameLog \o <<"destroy_image_view", "destroy_image", "free_memory">>
    /\ UNCHANGED <<cur, fence, cmdbuf, cmds, queue, sem, img, relPending, drawn, present_index,
                   acquireResult, presentResult, rebuild_needed, gen, frames>>

\* a cleanup that takes the command pool with it
SwapchainCleanup_Destroy_with_pool ==
    /\ pc = "cleanup_swapchain_destroy"
    /\ res' = [res EXCEPT !["present_image_views"] = 0, !["swapchain"] = 0]
    /\ destroys' = [destroys EXCEPT !["pool"] = @ + 1]
    /\ pc' = "cleanup_done"
    /\ frameLog' = frameLog \o <<"destroy_image_view", "destroy_swapchain", "destroy_command_pool">>
    /\ UNCHANGED <<cur, fence, cmdbuf, cmds, queue, sem, img, relPending, drawn, present_index,
                   acquireResult, presentResult, rebuild_needed, gen, frames>>
    /\ UNCHANGED <<surfaceVars, bufferVars, shellVars>>

\* cleanup_resize_dependent_components, second call: the swapchain components
SwapchainCleanup_WaitIdle ==
    /\ UNCHANGED nonFrameVars
    /\ pc = "cleanup_swapchain_wait"
    /\ device_wait_idle
    /\ pc' = "cleanup_swapchain_destroy"
    /\ Log("device_wait_idle")
    /\ UNCHANGED <<cur, fence, cmdbuf, cmds, queue, sem, img, relPending, drawn, present_index,
                   acquireResult, presentResult, rebuild_needed, res, gen, frames>>

SwapchainCleanup_Destroy ==
    /\ UNCHANGED nonFrameVars
    /\ pc = "cleanup_swapchain_destroy"
    /\ res' = [res EXCEPT !["present_image_views"] = 0, !["swapchain"] = 0]
    /\ pc' = "cleanup_done"
    /\ frameLog' = frameLog \o <<"destroy_image_view", "destroy_swapchain">>
    /\ UNCHANGED <<cur, fence, cmdbuf, cmds, queue, sem, img, relPending, drawn, present_index,
                   acquireResult, presentResult, rebuild_needed, gen, frames>>

\* The rebuild procedure, second half: ResizeDependentComponents::new is
\* called once the cleanup has returned.
Rebuild_Construct ==
    /\ UNCHANGED nonFrameVars
    /\ pc = "cleanup_done"
    /\ pc' = "new_swapchain"
    /\ UNCHANGED <<cur, fence, cmdbuf, cmds, queue, sem, img, relPending, drawn, present_index,
                   acquireResult, presentResult, rebuild_needed, res, gen, frames, frameLog>>

\* ResizeDependentComponents::new, first call: SwapchainComponents::new
SwapchainComponents_new ==
    /\ UNCHANGED nonFrameVars
    /\ pc = "new_swapchain"
    /\ gen' = gen + 1
    /\ res' = [res EXCEPT !["swapchain"] = gen + 1, !["present_image_views"] = gen + 1]
    /\ img' = [i \in ImageIndices |-> "pe"]
    /\ relPending' = {}
    /\ drawn' = [i \in ImageIndices |-> FALSE]
    /\ pc' = "new_depth_image"
    /\ frameLog' = frameLog \o <<"create_swapchain", "create_image_view">>
    /\ UNCHANGED <<cur, fence, cmdbuf, cmds, queue, sem, present_index, acquireResult,
                   presentResult, rebuild_needed, frames>>

\* DepthImageComponents::new up to its call of record_submit_commandbuffer
DepthImageComponents_new_image ==
    /\ UNCHANGED nonFrameVars
    /\ pc = "new_depth_image"
    /\ res' = [res EXCEPT !["depth_image"] = gen, !["depth_image_memory"] = gen]
    /\ cur' = "setup"
    /\ pc' = "rs_wait"
    /\ frameLog' = frameLog \o <<"create_image", "allocate_memory", "bind_image_memory">>
    /\ UNCHANGED <<fence, cmdbuf, cmds, queue, sem, img, relPending, drawn, present_index,
                   acquireResult, presentResult, rebuild_needed, gen, frames>>

\* DepthImageComponents::new after record_submit_commandbuffer returned
DepthImageComponents_new_view ==
    /\ UNCHANGED nonFrameVars
    /\ pc = "new_depth_view"
    /\ res' = [res EXCEPT !["depth_image_view"] = gen]
    /\ pc' = "idle"
    /\ Log("create_image_view")
    /\ UNCHANGED <<cur, fence, cmdbuf, cmds, queue, sem, img, relPending, drawn, present_index,
                   acquireResult, presentResult, rebuild_needed, gen, frames>>

\* ------------------------------------------------------ Drop for Renderer
\* WindowEvent::CloseRequested: event_loop.exit(); the App and with it the
\* Renderer are dropped
CloseRequested ==
    /\ pc = "idle"
    /\ pc' = "drop_wait"
    /\ frameLog' = <<>>
    /\ UNCHANGED <<cur, fence, cmdbuf, cmds, queue, sem, img, relPending, drawn, present_index,
                   acquireResult, presentResult, rebuild_needed, res, gen, frames>>
    /\ UNCHANGED nonFrameVars

\* self.device.device_wait_idle().unwrap()
Drop_WaitIdle ==
    /\ pc = "drop_wait"
    /\ device_wait_idle
    /\ pc' = "drop_destroy"
    /\ Log("device_wait_idle")
    /\ UNCHANGED <<cur, fence, cmdbuf, cmds, queue, sem, img, relPending, drawn, present_index,
                   acquireResult, presentResult, rebuild_needed, res, gen, frames>>
    /\ UNCHANGED nonFrameVars

\* the objects drop destroys, in the order of its calls
DropDestroyed ==
    <<"present_complete_semaphore", "rendering_complete_semaphore",
      "draw_commands_reuse_fence", "setup_commands_reuse_fence", "pool">>

\* destroy_semaphore x2, destroy_fence x2, free_memory, destroy_image_view,
\* destroy_image, destroy_image_view per present image view,
\* destroy_command_pool, destroy_swapchain
Drop_DestroyObjects ==
    /\ pc = "drop_destroy"
    /\ destroys' = [o \in DeviceObjects |->
                      destroys[o] + Cardinality({k \in 1 .. Len(DropDestroyed) : DropDestroyed[k] = o})]
    /\ res' = [k \in ResourceKinds |-> 0]
    /\ pc' = "drop_device"
    /\ frameLog' = frameLog \o <<"destroy_semaphore", "destroy_semaphore", "destroy_fence",
                                 "destroy_fence", "free_memory", "destroy_image_view",
                                 "destroy_image", "destroy_image_view", "destroy_command_pool",
                                 "destroy_swapchain">>
    /\ UNCHANGED <<cur, fence, cmdbuf, cmds, queue, sem, img, relPending, drawn, present_index,
                   acquireResult, presentResult, rebuild_needed, gen, frames>>
    /\ UNCHANGED <<surfaceVars, bufferVars, shellVars>>

\* destroy_device, then the instance level objects: destroy_surface,
\* destroy_debug_utils_messenger, destroy_instance
Drop_DestroyDevice ==
    /\ pc = "drop_device"
    /\ pc' = "dropped"
    /\ frameLog' = frameLog \o <<"destroy_device", "destroy_surface",
                                 "destroy_debug_utils_messenger", "destroy_instance">>
    /\ UNCHANGED <<cur, fence, cmdbuf, cmds, queue, sem, img, relPending, drawn, present_index,
                   acquireResult, presentResult, rebuild_needed, res, gen, frames>>
    /\ UNCHANGED nonFrameVars

\* ------------------------------------------------------------------ Next
Next ==
    \/ Resized
    \/ RedrawRequested
    \/ DF_AcquireNextImage
    \/ RS_WaitForFences
    \/ RS_ResetFences
    \/ RS_ResetCommandBuffer
    \/ RS_Record
    \/ RS_QueueSubmit
    \/ DF_QueuePresent
    \/ Rebuild_Cleanup
    \/ Rebuild_Construct
    \/ DepthCleanup_WaitIdle
    \/ DepthCleanup_Destroy
    \/ SwapchainCleanup_WaitIdle
    \/ SwapchainCleanup_Destroy
    \/ SwapchainComponents_new
    \/ DepthImageComponents_new_image
    \/ DepthImageComponents_new_view
    \/ CloseRequested
    \/ Drop_WaitIdle
    \/ Drop_DestroyObjects
    \/ Drop_DestroyDevice
    \/ GPU_ExecuteSubmit
    \/ GPU_ExecutePresent
    \/ PE_ReleaseImage

Spec == Init /\ [][Next]_vars

\* wait_for_fences returns when the fence it waits for is signaled
SpecFair == Init /\ [][Next]_vars /\ WF_vars(RS_WaitForFences)

TypeOK ==
    /\ fence \in [CommandBuffers -> BOOLEAN]
    /\ cur \in CommandBuffers
    /\ \A s \in Semaphores : sem[s] \in 0 .. MaxFrames
    /\ relPending \subseteq ImageIndices
    /\ Len(queue) <= 2 + NumImages
    /\ gen \in 1 .. MaxGen
    /\ frames \in 0 .. MaxFrames

\* ============================================ surface dependent construction
\* The swapchain, the depth image, the viewport and the scissor are built from
\* what the surface and the window report: by Renderer::new first, by
\* ResizeDependentComponents::new on every rebuild.

\* largest width or height a window takes
MaxDim == 1
\* largest min_image_count a surface reports, u32::MAX aside
MaxMinImageCount == 2
\* images a swapchain may realize beyond the count it was asked for
MaxExtraImages == 1

Max(a, b) == IF a >= b THEN a ELSE b

\* A u32 is kept as its two 16 bit halves, so that every value up to u32::MAX
\* is represented exactly.
u32(n) == [hi |-> n \div (2 ^ 16), lo |-> n % (2 ^ 16)]
\* u32::MAX: the width of an undefined current extent, and the largest count
U32_MAX == [hi |-> 2 ^ 16 - 1, lo |-> 2 ^ 16 - 1]
u32_lt(a, b) == a.hi < b.hi \/ (a.hi = b.hi /\ a.lo < b.lo)
u32_le(a, b) == a = b \/ u32_lt(a, b)
\* u32::max
u32_max(a, b) == IF u32_lt(a, b) THEN b ELSE a
\* the value of a u32 below 2^31
to_nat(a) == a.hi * (2 ^ 16) + a.lo

Dims == {u32(n) : n \in 0 .. MaxDim}
Extents == [width : Dims, height : Dims]

\* capabilities a surface can report: max_image_count is 0 (no limit) or at
\* least min_image_count
ImageCounts ==
    {c \in [min_image_count : {u32(n) : n \in 1 .. MaxMinImageCount} \cup {U32_MAX},
            max_image_count : {u32(n) : n \in 0 .. (MaxMinImageCount + 1)} \cup {U32_MAX}] :
        c.max_image_count = u32(0) \/ u32_le(c.min_image_count, c.max_image_count)}

\* get_physical_device_surface_capabilities for a window of the given size:
\* the current extent is the size of the window, or (u32::MAX, u32::MAX)
\* where the swapchain decides it
surface_capabilities(size) ==
    [min_image_count |-> image_counts.min_image_count,
     max_image_count |-> image_counts.max_image_count,
     current_extent |-> IF extent_defined THEN size
                        ELSE [width |-> U32_MAX, height |-> U32_MAX]]

\* u32 addition as a build without overflow checks computes it
wrapping_add(a, b) ==
    LET lo == a.lo + b.lo
        hi == a.hi + b.hi + (lo \div (2 ^ 16))
    IN  [hi |-> hi % (2 ^ 16), lo |-> lo % (2 ^ 16)]
\* u32 addition overflows
add_overflows(a, b) == a.hi + b.hi + ((a.lo + b.lo) \div (2 ^ 16)) >= 2 ^ 16

\* let mut desired_image_count = min_image_count + 1; clamped to a nonzero max
desired_image_count(caps) ==
    LET desired == wrapping_add(caps.min_image_count, u32(1))
    IN  IF u32_lt(u32(0), caps.max_image_count) /\ u32_lt(caps.max_image_count, desired)
        THEN caps.max_image_count
        ELSE desired

\* Renderer::new: the window size is taken as it is
Renderer_surface_resolution(caps, size) ==
    IF caps.current_extent.width = U32_MAX
    THEN [width |-> size.width, height |-> size.height]
    ELSE caps.current_extent

\* SwapchainComponents::new: the window size is floored at 1, a reported
\* current extent is taken as it is
surface_resolution(caps, size) ==
    IF caps.current_extent.width = U32_MAX
    THEN [width |-> u32_max(size.width, u32(1)), height |-> u32_max(size.height, u32(1))]
    ELSE caps.current_extent

\* u32 as f32: exact up to 2^24, above that rounded to the 24 bit significand
\* (to nearest, ties to even)
RECURSIVE Ulp(_)
Ulp(n) == IF n < 2 ^ 24 THEN 1 ELSE 2 * Ulp(n \div 2)
AsF32(a) ==
    LET n == to_nat(a)
        u == Ulp(n)
        lo == (n \div u) * u
        r == n - lo
    IN  IF 2 * r < u THEN lo
        ELSE IF 2 * r > u THEN lo + u
        ELSE IF (lo \div u) % 2 = 0 THEN lo ELSE lo + u

\* a viewport that takes its width from the height of the resolution
viewport_square(resolution) ==
    [x |-> 0, y |-> 0, width |-> AsF32(resolution.height),
     height |-> AsF32(resolution.height), min_depth |-> 0, max_depth |-> 1]

\* vk::Viewport { x: 0.0, y: 0.0, width: .. as f32, height: .. as f32, 0.0, 1.0 }
viewport(resolution) ==
    [x |-> 0, y |-> 0, width |-> AsF32(resolution.width),
     height |-> AsF32(resolution.height), min_depth |-> 0, max_depth |-> 1]

\* surface_resolution.into(): Rect2D with a zero offset
scissor(resolution) == [offset |-> [x |-> 0, y |-> 0], extent |-> resolution]

\* SwapchainCreateInfoKHR the device accepts for the surface
ValidCreateInfo(caps, count, extent) ==
    /\ u32_le(caps.min_image_count, count)
    /\ caps.max_image_count = u32(0) \/ u32_le(count, caps.max_image_count)
    /\ u32_le(u32(1), extent.width)
    /\ u32_le(u32(1), extent.height)

\* get_swapchain_images: at least the count asked for (one image at the
\* least), within max_image_count if there is one
RealizedCounts(caps, count) ==
    LET asked == Max(to_nat(count), 1)
    IN  {n \in asked .. (asked + MaxExtraImages) :
            \/ n = asked
            \/ caps.max_image_count = u32(0)
            \/ u32_le(u32(n), caps.max_image_count)}

\* what a build leaves: the count and the resolution it asked the swapchain
\* for, and the rectangles derived from the resolution
SurfaceSet(by, size, caps, count, resolution) ==
    [by |-> by, window |-> size,
     min_image_count |-> caps.min_image_count, max_image_count |-> caps.max_image_count,
     desired_image_count |-> count, surface_resolution |-> resolution,
     depth_extent |-> resolution,
     viewport |-> viewport(resolution), scissor |-> scissor(resolution)]

\* the last two sets
Remember(set) == IF Len(sets) < 2 THEN Append(sets, set) ELSE <<sets[2], set>>

\* From the capability query to the image views, for a window of the given
\* size.  min_image_count + 1 panics on overflow where the build checks it.
\* create_swapchain .unwrap(): a create info the device does not accept is an
\* error (panic) or is let through.
BuildSet(by, size, resolution) ==
    LET caps == surface_capabilities(size)
        count == desired_image_count(caps)
    IN  IF overflow_checks /\ add_overflows(caps.min_image_count, u32(1))
        THEN /\ spos' = "panicked_overflow"
             /\ UNCHANGED <<sets, present_image_views>>
        ELSE /\ sets' = Remember(SurfaceSet(by, size, caps, count, resolution))
             /\ \E ok \in IF ValidCreateInfo(caps, count, resolution) THEN {TRUE} ELSE BOOLEAN :
                    IF ok
                    THEN /\ spos' = "new_descriptors"
                         /\ present_image_views' \in RealizedCounts(caps, count)
                    ELSE /\ spos' = "panicked_create"
                         /\ UNCHANGED present_image_views

\* Renderer::new, up to the depth image view
Renderer_new ==
    /\ spos = "start"
    /\ BuildSet("Renderer_new", inner_size,
                Renderer_surface_resolution(surface_capabilities(inner_size), inner_size))
    /\ UNCHANGED <<overflow_checks, extent_defined, image_counts, inner_size, descriptor>>
    /\ UNCHANGED <<frameVars, teardownVars, bufferVars, shellVars>>

\* ResizeDependentComponents::new, called by the rebuild; the window has any
\* size by then
ResizeDependentComponents_new ==
    /\ spos = "built"
    /\ \E size \in Extents :
        /\ inner_size' = size
        /\ BuildSet("ResizeDependentComponents_new", size,
                    surface_resolution(surface_capabilities(size), size))
    /\ UNCHANGED <<overflow_checks, extent_defined, image_counts, descriptor>>
    /\ UNCHANGED <<frameVars, teardownVars, bufferVars, shellVars>>

\* a loop that starts at 1: for _ in 1..present_image_count
uniform_buffers_one_short(present_image_count) == Max(present_image_count - 1, 0)

\* for _ in 0..present_image_count { .. uniform_buffers.push(uniform_buffer) }
uniform_buffers_created(present_image_count) == Cardinality(0 .. (present_image_count - 1))

\* allocate_descriptor_sets with set_layouts = vec![layout; present_image_count]
descriptor_sets_allocated(present_image_count) == Cardinality(1 .. present_image_count)

\* vk::DescriptorPoolSize::default(): the descriptor type with raw value 0
DescriptorPoolSize_default == [ty |-> "SAMPLER", descriptor_count |-> 0]

\* [vk::DescriptorPoolSize::default().descriptor_count(present_image_count)]
pool_sizes(present_image_count) ==
    <<[DescriptorPoolSize_default EXCEPT !.descriptor_count = present_image_count]>>

\* for i in 0..descriptor_sets.len(): set i is written with uniform_buffers[i];
\* entry i + 1 is the index of the buffer bound to set i
descriptor_writes(len) == [k \in 1 .. len |-> k - 1]

\* the number of descriptors of one type a pool holds
RECURSIVE descriptors_of(_, _)
descriptors_of(sizes, ty) ==
    IF sizes = <<>> THEN 0
    ELSE (IF Head(sizes).ty = ty THEN Head(sizes).descriptor_count ELSE 0)
         + descriptors_of(Tail(sizes), ty)

\* DescriptorComponents::new(present_image_count).  The pool is created with
\* descriptor_count descriptors of the default type and the sets need uniform
\* buffer descriptors: the allocation succeeds or fails (.expect panics),
\* whichever the implementation does.
DescriptorComponents_new(present_image_count) ==
    \E allocated \in BOOLEAN :
        IF allocated
        THEN /\ descriptor' = [uniform_buffers |-> uniform_buffers_created(present_image_count),
                               descriptor_sets |-> descriptor_sets_allocated(present_image_count),
                               max_sets |-> present_image_count,
                               pool_sizes |-> pool_sizes(present_image_count),
                               set_buffers |-> descriptor_writes(
                                   descriptor_sets_allocated(present_image_count))]
             /\ spos' = "built"
        ELSE /\ spos' = "panicked_descriptors"
             /\ UNCHANGED descriptor

\* The caller of DescriptorComponents::new: it passes the number of image
\* views of the set just built, at construction and alongside every rebuild.
Build_DescriptorComponents ==
    /\ spos = "new_descriptors"
    /\ DescriptorComponents_new(present_image_views)
    /\ UNCHANGED <<overflow_checks, extent_defined, image_counts, inner_size, sets,
                   present_image_views>>
    /\ UNCHANGED <<frameVars, teardownVars, bufferVars, shellVars>>

\* the surface, the window and the build profile are any of those modelled;
\* the frame loop has not started
SurfaceInit ==
    /\ spos = "start"
    /\ overflow_checks \in BOOLEAN
    /\ extent_defined \in BOOLEAN
    /\ image_counts \in ImageCounts
    /\ inner_size \in Extents
    /\ sets = <<>>
    /\ present_image_views = 0
    /\ descriptor = [uniform_buffers |-> 0, descriptor_sets |-> 0, max_sets |-> 0,
                    pool_sizes |-> <<>>, set_buffers |-> <<>>]

SurfaceNext ==
    \/ Renderer_new
    \/ ResizeDependentComponents_new
    \/ Build_DescriptorComponents

InitSurface == FrameInit /\ SurfaceInit /\ TeardownInit /\ BufferOff /\ ShellInit

SpecSurface == InitSurface /\ [][SurfaceNext]_vars

\* ============================================================ typed buffers
\* Buffer<T>: Buffer::new, write_data_direct, write_from_staging, cleanup, for
\* the two buffers VertexBuffer::new creates.

\* largest size_of::<T>()
MaxElemSize == 2
\* largest buffer_len a buffer is created with
MaxBufferLen == 2
\* largest data.len() write_data_direct is called with
MaxDataLen == 3
\* cap on the number of write_data_direct calls
MaxWrites == 2

Buffers == {"staging_buffer", "vertex_buffer"}
\* values of an element; Uninit is what freshly allocated memory holds
Values == {"x", "y"}
Uninit == "uninit"
Datas == UNION {[1 .. n -> Values] : n \in 0 .. MaxDataLen}
\* rounding of the size get_buffer_memory_requirements reports
Alignments == {1, 4}
Usages == SUBSET {"TRANSFER_SRC", "TRANSFER_DST"}
MemoryProperties == SUBSET {"HOST_VISIBLE", "HOST_COHERENT"}
\* arguments of Buffer::new
BufferParams ==
    [usage : Usages, memory_properties : MemoryProperties, buffer_len : 1 .. MaxBufferLen,
     persistent_mapping : BOOLEAN]

\* let buffer_size = size_of::<T>() * buffer_len; .. size: buffer_size
buffer_size(buffer_len) == elem_size * buffer_len

\* the Buffer<T> that Buffer::new(p) returns
Buffer_new(p) ==
    [size |-> buffer_size(p.buffer_len), usage |-> p.usage,
     memory_properties |-> p.memory_properties, mapping |-> p.persistent_mapping]

Buffer(b) == Buffer_new(params[b])

\* get_buffer_memory_requirements(buffer).size
memory_requirements_size(b) ==
    ((Buffer(b).size + alignment - 1) \div alignment) * alignment

\* Align::new(ptr, align_of::<T>(), size): the elements of T the mapped range holds
MappedLen(b) == memory_requirements_size(b) \div elem_size

\* the device calls of Buffer::new(p)
Buffer_new_calls(p) ==
    <<"create_buffer", "get_buffer_memory_requirements", "allocate_memory", "bind_buffer_memory">>
        \o (IF p.persistent_mapping THEN <<"map_memory">> ELSE <<>>)

\* VertexBuffer::new: Buffer::new for the vertex buffer, then for the staging
\* buffer.  map_memory of memory that is not host visible is an error (unwrap
\* panics) or is let through.
VertexBuffer_new ==
    /\ bpos = "start"
    /\ \E mapped \in IF \E b \in Buffers : /\ params[b].persistent_mapping
                                          /\ "HOST_VISIBLE" \notin params[b].memory_properties
                    THEN BOOLEAN ELSE {TRUE} :
        IF mapped
        THEN /\ bpos' = "ready"
             /\ live' = [b \in Buffers |-> "live"]
             /\ memory' = [i \in 1 .. MappedLen("staging_buffer") |-> Uninit]
        ELSE /\ bpos' = "panicked"
             /\ UNCHANGED <<live, memory>>
    /\ frameLog' = Buffer_new_calls(params["vertex_buffer"])
                        \o Buffer_new_calls(params["staging_buffer"])
    /\ UNCHANGED <<elem_size, alignment, params, writes, last_data, write_outcome, copy_regions>>
    /\ UNCHANGED <<pc, cur, fence, cmdbuf, cmds, queue, sem, img, relPending, drawn, present_index,
                   acquireResult, presentResult, rebuild_needed, res, gen, frames>>
    /\ UNCHANGED <<surfaceVars, teardownVars, shellVars>>

\* the two assert_eq! on memory_properties
host_access_asserts(buf) ==
    /\ "HOST_VISIBLE" \in buf.memory_properties
    /\ "HOST_COHERENT" \in buf.memory_properties

\* assert!(data.len() <= self.size)
capacity_assert(buf, data) == Len(data) <= buf.size

\* a copy that starts behind the first element
copy_from_slice_behind_first(mem, data) ==
    [i \in 1 .. Len(mem) |-> IF 2 <= i /\ i <= Len(data) + 1 THEN data[i - 1] ELSE mem[i]]

\* Align::copy_from_slice: a raw copy of data.len() elements to the start of
\* the mapped range
copy_from_slice(mem, data) ==
    [i \in 1 .. Len(mem) |-> IF i <= Len(data) THEN data[i] ELSE mem[i]]

\* Buffer::write_data_direct on the staging buffer, called with the host at
\* position at and returning to position next.  The copy has no bound of
\* its own: data longer than the mapped range is written past its end, which
\* crashes the process or corrupts what lies behind the range.
Buffer_write_data_direct(at, next) ==
    /\ bpos = at
    /\ live["staging_buffer"] = "live"
    /\ writes < MaxWrites
    /\ writes' = writes + 1
    /\ \E data \in Datas :
        LET buf == Buffer("staging_buffer")
        IN  /\ last_data' = data
            /\ IF ~host_access_asserts(buf) \/ ~capacity_assert(buf, data)
               THEN /\ write_outcome' = "assert_failed"
                    /\ bpos' = "panicked"
                    /\ frameLog' = <<>>
                    /\ UNCHANGED memory
               ELSE /\ frameLog' = IF buf.mapping THEN <<>>
                                   ELSE <<"get_buffer_memory_requirements", "map_memory",
                                          "unmap_memory">>
                    /\ IF Len(data) <= Len(memory)
                       THEN /\ memory' = copy_from_slice(memory, data)
                            /\ write_outcome' = "written"
                            /\ bpos' = next
                       ELSE /\ memory' = copy_from_slice(memory, SubSeq(data, 1, Len(memory)))
                            /\ write_outcome' = "out_of_bounds"
                            /\ bpos' \in {next, "crashed"}
    /\ UNCHANGED <<elem_size, alignment, params, live, copy_regions>>
    /\ UNCHANGED <<pc, cur, fence, cmdbuf, cmds, queue, sem, img, relPending, drawn, present_index,
                   acquireResult, presentResult, rebuild_needed, res, gen, frames>>
    /\ UNCHANGED <<surfaceVars, teardownVars, shellVars>>

\* a call of write_data_direct on its own
write_data_direct == Buffer_write_data_direct("ready", "ready")

\* the first elements of the mapped memory, read back
readback(n) == SubSeq(memory, 1, n)

\* the checks with the size comparison left out
staging_asserts_without_size(dst, staging) ==
    /\ "TRANSFER_DST" \in dst.usage
    /\ "TRANSFER_SRC" \in staging.usage

\* assert_eq!(self.usage & TRANSFER_DST, ..); assert_eq!(staging_buffer.usage &
\* TRANSFER_SRC, ..); assert!(self.size >= staging_buffer.size)
staging_asserts(dst, staging) ==
    /\ "TRANSFER_DST" \in dst.usage
    /\ "TRANSFER_SRC" \in staging.usage
    /\ dst.size >= staging.size

\* vk::BufferCopy::default().size(staging_buffer.size as u64)
copy_region(staging) == [src_offset |-> 0, dst_offset |-> 0, size |-> staging.size]

\* what the closure records: cmd_copy_buffer(.., &[copy_region])
copy_commands == <<"cmd_copy_buffer">>

\* the submission record_submit_commandbuffer makes for write_from_staging
CopyOp(commands) ==
    [kind |-> "copy", cb |-> "setup", fence |-> "setup", wait |-> {}, stage |-> {},
     signal |-> {}, image |-> present_index, gen |-> gen, cmds |-> commands]

\* Buffer::write_from_staging on the vertex buffer, with the setup command
\* buffer and its reuse fence, called with the host at position at and
\* returning to position next; record_submit_commandbuffer returns once the
\* fence wait has returned and the submission is queued
Buffer_write_from_staging(at, next) ==
    /\ bpos = at
    /\ \A b \in Buffers : live[b] = "live"
    /\ LET dst == Buffer("vertex_buffer")
           staging == Buffer("staging_buffer")
       IN  IF ~staging_asserts(dst, staging)
           THEN /\ bpos' = "panicked"
                /\ frameLog' = <<>>
                /\ UNCHANGED <<fence, cmdbuf, cmds, queue, copy_regions>>
           ELSE /\ wait_for_fences("setup")
                /\ fence' = reset_fences("setup")
                /\ cmds' = [cmds EXCEPT !["setup"] = copy_commands]
                /\ copy_regions' = <<copy_region(staging)>>
                /\ cmdbuf' = [cmdbuf EXCEPT !["setup"] = "pending"]
                /\ queue' = Append(queue, CopyOp(copy_commands))
                /\ frameLog' = <<"wait_for_fences", "reset_fences", "reset_command_buffer",
                                 "begin_command_buffer", "cmd_copy_buffer",
                                 "end_command_buffer", "queue_submit">>
                /\ bpos' = next
    /\ UNCHANGED <<elem_size, alignment, params, live, memory, writes, last_data, write_outcome>>
    /\ UNCHANGED <<pc, cur, sem, img, relPending, drawn, present_index, acquireResult,
                   presentResult, rebuild_needed, res, gen, frames>>
    /\ UNCHANGED <<surfaceVars, teardownVars, shellVars>>

\* a call of write_from_staging on its own
write_from_staging == Buffer_write_from_staging("ready", "ready")

\* Buffer::cleanup: destroy_buffer(self.buffer), then free_memory(self.memory)
Buffer_cleanup ==
    /\ bpos = "ready"
    /\ \E b \in Buffers :
        /\ live[b] = "live"
        /\ live' = [live EXCEPT ![b] = "destroyed"]
    /\ frameLog' = <<"destroy_buffer", "free_memory">>
    /\ UNCHANGED <<bpos, elem_size, alignment, params, memory, writes, last_data, write_outcome,
                   copy_regions>>
    /\ UNCHANGED <<pc, cur, fence, cmdbuf, cmds, queue, sem, img, relPending, drawn, present_index,
                   acquireResult, presentResult, rebuild_needed, res, gen, frames>>
    /\ UNCHANGED <<surfaceVars, teardownVars, shellVars>>

\* the arguments VertexBuffer::new passes to Buffer::new
VertexBufferParams(buffer_len) ==
    [staging_buffer |->
        [usage |-> {"TRANSFER_SRC"}, memory_properties |-> {"HOST_VISIBLE", "HOST_COHERENT"},
         buffer_len |-> buffer_len, persistent_mapping |-> FALSE],
     vertex_buffer |->
        [usage |-> {"TRANSFER_DST"}, memory_properties |-> {},
         buffer_len |-> buffer_len, persistent_mapping |-> FALSE]]

BufferStart ==
    /\ bpos = "start"
    /\ live = [b \in Buffers |-> "none"]
    /\ memory = <<>>
    /\ writes = 0
    /\ last_data = <<>>
    /\ write_outcome = "none"
    /\ copy_regions = <<>>

\* write_data_direct: any element size, any staging buffer
BufferWriteInit ==
    /\ BufferStart
    /\ elem_size \in 1 .. MaxElemSize
    /\ alignment \in Alignments
    /\ \E p \in BufferParams :
        params = [VertexBufferParams(p.buffer_len) EXCEPT !["staging_buffer"] = p]

InitBufferWrite == FrameInit /\ SurfaceOff /\ TeardownInit /\ BufferWriteInit /\ ShellInit

BufferWriteNext ==
    \/ VertexBuffer_new
    \/ write_data_direct

SpecBufferWrite == InitBufferWrite /\ [][BufferWriteNext]_vars

\* write_from_staging and cleanup: any usage and length of the two buffers
BufferCopyInit ==
    /\ BufferStart
    /\ elem_size \in 1 .. MaxElemSize
    /\ alignment \in Alignments
    /\ \E us \in Usages, ud \in Usages, ls \in 1 .. MaxBufferLen, ld \in 1 .. MaxBufferLen :
        params = [staging_buffer |-> [VertexBufferParams(ls).staging_buffer EXCEPT !.usage = us],
                  vertex_buffer |-> [VertexBufferParams(ld).vertex_buffer EXCEPT !.usage = ud]]

InitBufferCopy == FrameInit /\ SurfaceOff /\ TeardownInit /\ BufferCopyInit /\ ShellInit

BufferCopyNext ==
    \/ VertexBuffer_new
    \/ write_from_staging
    \/ Buffer_cleanup
    \/ GPU_ExecuteSubmit

SpecBufferCopy == InitBufferCopy /\ [][BufferCopyNext]_vars

\* ------------------------------------------------- VertexBuffer::update_vertices
\* self.staging_buffer.write_data_direct(device, vertices): the first statement
\* of update_vertices, which writes before anything waits
update_vertices_write ==
    Buffer_write_data_direct("ready", "update_vertices")

\* self.vertex_buffer.write_from_staging(..): the second statement, which waits
\* for the setup fence, submits the copy and returns without waiting for it
update_vertices_copy ==
    Buffer_write_from_staging("update_vertices", "ready")

\* the two buffers as VertexBuffer::new creates them, both VERTICES.len() long
UpdateVerticesInit ==
    /\ BufferStart
    /\ elem_size \in 1 .. MaxElemSize
    /\ alignment \in Alignments
    /\ \E buffer_len \in 1 .. MaxBufferLen : params = VertexBufferParams(buffer_len)

InitUpdateVertices == FrameInit /\ SurfaceOff /\ TeardownInit /\ UpdateVerticesInit /\ ShellInit

UpdateVerticesNext ==
    \/ VertexBuffer_new
    \/ update_vertices_write
    \/ update_vertices_copy
    \/ GPU_ExecuteSubmit

SpecUpdateVertices == InitUpdateVertices /\ [][UpdateVerticesNext]_vars

\* ================================================================ the camera
\* App::device_event, the keyboard branch of App::window_event and
\* CameraController::update_camera.

\* cap on the number of update_camera calls
MaxUpdates == 2
\* cap on the number of MouseMotion events between two update_camera calls
MaxMotions == 2

\* deltas of a MouseMotion event, whole numbers (delta.0 as f32 is exact)
Deltas == {<<2, -1>>, <<-2, 1>>}

\* the physical keys of the four match arms, and the flag each sets
Keys == {"KeyA", "ArrowLeft", "KeyD", "ArrowRight", "KeyS", "ArrowDown", "KeyW", "ArrowUp"}
flag_of(key) ==
    IF key \in {"KeyA", "ArrowLeft"} THEN "left_pressed"
    ELSE IF key \in {"KeyD", "ArrowRight"} THEN "right_pressed"
    ELSE IF key \in {"KeyS", "ArrowDown"} THEN "backward_pressed"
    ELSE "forward_pressed"

\* DeviceEvent::MouseMotion { delta }: both accumulators grow by the delta
DeviceEvent_MouseMotion ==
    /\ Len(motions) < MaxMotions
    /\ \E delta \in Deltas :
        /\ controller' = [controller EXCEPT !.mouse_delta_x = @ + delta[1],
                                            !.mouse_delta_y = @ + delta[2]]
        /\ motions' = Append(motions, delta)
    /\ UNCHANGED <<redraw_requested, camera, updates>>
    /\ UNCHANGED <<frameVars, surfaceVars, teardownVars, bufferVars>>

\* WindowEvent::KeyboardInput: the flag of the key takes event.state.is_pressed()
WindowEvent_KeyboardInput ==
    /\ \E key \in Keys, is_pressed \in BOOLEAN :
        controller' = [controller EXCEPT ![flag_of(key)] = is_pressed]
    /\ UNCHANGED <<redraw_requested, camera, motions, updates>>
    /\ UNCHANGED <<frameVars, surfaceVars, teardownVars, bufferVars>>

\* CameraController::update_camera, as the RedrawRequested handler calls it
CameraController_update_camera ==
    /\ updates < MaxUpdates
    /\ updates' = updates + 1
    /\ camera' = update_camera(camera, controller)
    /\ controller' = reset_accumulators(controller)
    /\ motions' = <<>>
    /\ UNCHANGED redraw_requested
    /\ UNCHANGED <<frameVars, surfaceVars, teardownVars, bufferVars>>

InitCamera == FrameInit /\ SurfaceOff /\ TeardownInit /\ BufferOff /\ ShellInit

CameraNext ==
    \/ DeviceEvent_MouseMotion
    \/ WindowEvent_KeyboardInput
    \/ CameraController_update_camera

SpecCamera == InitCamera /\ [][CameraNext]_vars

\* ============================================================== properties
Positions(call) == {k \in 1 .. Len(frameLog) : frameLog[k] = call}
\* every occurrence of call b in the log of the running handler follows an occurrence of a
Precedes(a, b) == \A j \in Positions(b) : \E i \in Positions(a) : i < j
Called(call) == Positions(call) # {}

InRecordSubmit == pc \in {"rs_reset_fence", "rs_reset_cb", "rs_record", "rs_submit"}
InDrawFrame ==
    \/ pc \in {"acquire", "present"}
    \/ cur = "draw" /\ pc \in {"rs_wait", "rs_reset_fence", "rs_reset_cb", "rs_record", "rs_submit"}
DrawsInFlight == Cardinality({k \in 1 .. Len(queue) : queue[k].kind = "draw"})

\* C1: for the draw and the setup command buffer alike, whenever
\* record_submit_commandbuffer is past its fence wait (about to reset the
\* fence, reset the command buffer, record or submit), the previous
\* submission of that command buffer has completed: the fence was signaled
\* when the wait returned, the command buffer is not pending, and the wait
\* precedes the two resets in the call order.
C1_ResetOnlyAfterFenceSignaled ==
    /\ pc = "rs_reset_fence" => fence[cur]
    /\ InRecordSubmit => ~InFlight(cur) /\ cmdbuf[cur] # "pending"
    /\ Precedes("wait_for_fences", "reset_fences")
    /\ Precedes("wait_for_fences", "reset_command_buffer")

\* the setup command buffer is being re-recorded by a rebuild that follows
\* two frames, each of which re-recorded the draw command buffer
C1_Witness ==
    /\ pc = "rs_record"
    /\ cur = "setup"
    /\ gen = 2
    /\ frames >= 2
    /\ cmdbuf["draw"] = "invalid"

\* C2: at most one draw submission is unfinished at any time, it holds the
\* draw fence unsignaled, and draw_frame queues a draw submission only when
\* none is unfinished.
C2_AtMostOneDrawInFlight ==
    /\ DrawsInFlight <= 1
    /\ DrawsInFlight = 1 => ~fence["draw"]
    /\ (pc = "rs_submit" /\ cur = "draw") => DrawsInFlight = 0

\* the draw submission of a second or later frame is queued and unfinished
C2_Witness ==
    /\ pc = "present"
    /\ frames >= 2
    /\ DrawsInFlight = 1

\* the handler that runs or ran last is draw_frame, and it has submitted its draw
DrawSubmittedThisFrame == Called("acquire_next_image") /\ Called("queue_submit")
\* draw_frame has run to its end
FrameReturned == pc = "idle" /\ Called("queue_present")

\* C3: when acquire_next_image returns out-of-date, draw_frame sets the
\* rebuild flag and returns: the process does not terminate, and the frame
\* writes no uniform, records and submits nothing and presents nothing.
C3_OutOfDateAcquireAbortsFrame ==
    acquireResult = "out_of_date" =>
        /\ pc # "panicked"
        /\ rebuild_needed
        /\ ~Called("write_uniform")
        /\ ~Called("record")
        /\ ~Called("queue_submit")
        /\ ~Called("queue_present")

\* C4: draw_frame reaches its acquire with the rebuild flag clear (a flag set
\* when draw_frame started has been consumed by one rebuild before the
\* acquire), and a draw_frame call rebuilds at most once.
C4_FlagConsumedBeforeAcquire ==
    /\ (pc = "acquire" \/ (InDrawFrame /\ acquireResult = "success")) => ~rebuild_needed
    /\ Called("acquire_next_image") => Cardinality(Positions("create_swapchain")) <= 1
    /\ (Called("acquire_next_image") /\ Called("create_swapchain")) =>
           Precedes("create_swapchain", "acquire_next_image")

\* C5: a rebuild destroys objects of the old set only after device_wait_idle
\* has returned (nothing submitted is unfinished when a destroy call is
\* issued), every object of the old set is destroyed before an object of the
\* new set is created (objects of two generations never exist together), and
\* draw_frame and every queued draw or present work on a fully built set of
\* the current generation.
DestroyCalls == {"destroy_image_view", "destroy_image", "free_memory", "destroy_swapchain"}

C5_RebuildOrder ==
    /\ pc \in {"cleanup_depth_destroy", "cleanup_swapchain_destroy"} => queue = <<>>
    /\ \A d \in DestroyCalls : Precedes("device_wait_idle", d)
    /\ \A k1, k2 \in ResourceKinds : (res[k1] # 0 /\ res[k2] # 0) => res[k1] = res[k2]
    /\ pc \in {"cleanup_done", "new_swapchain"} => \A k \in ResourceKinds : res[k] = 0
    /\ InDrawFrame => \A k \in ResourceKinds : res[k] = gen
    /\ \A j \in 1 .. Len(queue) :
         IF queue[j].kind = "setup"
         THEN res["depth_image"] = queue[j].gen /\ res["depth_image_memory"] = queue[j].gen
         ELSE \A k \in ResourceKinds : res[k] = queue[j].gen

\* a rebuild that follows a drawn frame has destroyed the whole old set and
\* not yet created any object of the new one
C5_Witness ==
    /\ pc = "new_swapchain"
    /\ frames >= 1
    /\ "destroy_swapchain" \in {frameLog[k] : k \in 1 .. Len(frameLog)}
    /\ \A k \in ResourceKinds : res[k] = 0

\* C9: every draw submission waits on present_complete at the
\* color-attachment-output stage and signals rendering_complete, every
\* present request waits on rendering_complete; no image is written by a
\* draw submission before the presentation engine has released it to the
\* acquire of that frame, and no image is presented before the draw
\* submission targeting it has completed.
C9_DrawPresentWiring ==
    \A j \in 1 .. Len(queue) :
        /\ queue[j].kind = "draw" =>
              /\ queue[j].wait = {"present_complete"}
              /\ queue[j].stage = {"COLOR_ATTACHMENT_OUTPUT"}
              /\ queue[j].signal = {"rendering_complete"}
        /\ queue[j].kind = "present" => queue[j].wait = {"rendering_complete"}

C9_NoWriteBeforeRelease == \A i \in ImageIndices : drawn[i] => i \notin relPending

C9_NoPresentBeforeDrawn ==
    \A i \in ImageIndices : (img[i] = "app" /\ img'[i] = "pe" /\ gen' = gen) => drawn[i]

C9_SemaphoreOrdering ==
    /\ [](C9_DrawPresentWiring /\ C9_NoWriteBeforeRelease)
    /\ [][C9_NoPresentBeforeDrawn]_vars

\* C6: in every frame that submits a draw, the uniform slot of the acquired
\* image is written after that frame's draw-fence wait has returned and before
\* the submission.
C6_UniformWrittenBetweenWaitAndSubmit ==
    DrawSubmittedThisFrame =>
        \E w \in Positions("write_uniform") :
            /\ \E f \in Positions("wait_for_fences") : f < w
            /\ \A q \in Positions("queue_submit") : w < q

\* C7: a present that returns out-of-date or suboptimal does not terminate
\* the process and sets the rebuild flag; any other present error terminates.
C7_PresentOutOfDateSetsFlag ==
    /\ presentResult \in {"out_of_date", "suboptimal"} => (pc # "panicked" /\ rebuild_needed)
    /\ presentResult = "error" => pc = "panicked"

\* C8: a frame whose acquire succeeded with the suboptimal indication has the
\* rebuild flag set, and when it returns it has written the uniform, recorded,
\* submitted and presented.
C8_SuboptimalAcquireDrawsAndFlags ==
    acquireResult = "suboptimal" =>
        /\ rebuild_needed
        /\ FrameReturned =>
              /\ Called("write_uniform")
              /\ Called("record")
              /\ Called("queue_submit")

\* C10: in every draw_frame call the draw-fence wait returns before
\* acquire_next_image is called, the acquire returns before the uniform write,
\* the uniform write precedes record and submit, and submit precedes present.
C10_FrameStepOrder ==
    Called("acquire_next_image") =>
        /\ Precedes("wait_for_fences", "acquire_next_image")
        /\ Precedes("acquire_next_image", "write_uniform")
        /\ Precedes("write_uniform", "record")
        /\ Precedes("record", "queue_submit")
        /\ Precedes("queue_submit", "queue_present")
        /\ DrawSubmittedThisFrame => Called("write_uniform")

\* ---------------------------------------------------------------------
\* C11: whenever the renderer is built (after construction and after any
\* sequence of rebuilds) the number of uniform buffers and the number of
\* descriptor sets both equal the number of image views of the current
\* swapchain, so every image index acquire can return indexes an existing
\* uniform buffer and an existing descriptor set.
C11_DescriptorCountsMatchImageViews ==
    spos = "built" =>
        /\ descriptor.uniform_buffers = present_image_views
        /\ descriptor.descriptor_sets = present_image_views
        /\ \A i \in 0 .. (present_image_views - 1) :
            i < descriptor.uniform_buffers /\ i < descriptor.descriptor_sets

\* built again after a rebuild, the swapchain having realized more images than asked for
C11_Witness ==
    /\ spos = "built"
    /\ Len(sets) = 2
    /\ sets[2].by = "ResizeDependentComponents_new"
    /\ present_image_views > to_nat(sets[2].desired_image_count)
    /\ descriptor.uniform_buffers = present_image_views

\* ---------------------------------------------------------------------
\* C12: for every capability report and every window size, a 0x0 window and
\* a reported current extent of 0x0 included, the resolution the swapchain and
\* the depth image are created with is at least 1 wide and at least 1 high,
\* at the first build and at every rebuild.
C12_ResolutionAtLeastOne ==
    \A k \in 1 .. Len(sets) :
        /\ u32_le(u32(1), sets[k].surface_resolution.width)
        /\ u32_le(u32(1), sets[k].surface_resolution.height)
        /\ u32_le(u32(1), sets[k].depth_extent.width)
        /\ u32_le(u32(1), sets[k].depth_extent.height)

\* ---------------------------------------------------------------------
\* C13: for every min_image_count and max_image_count of 32 bits (max = 0 or
\* max >= min) the build yields a desired image count, which is max when max
\* is nonzero and below min + 1 and min + 1 otherwise, so that
\* min <= desired and (max = 0 or desired <= max).
C13_DesiredImageCount ==
    /\ spos # "panicked_overflow"
    /\ \A k \in 1 .. Len(sets) :
        LET min == sets[k].min_image_count
            max == sets[k].max_image_count
            desired == sets[k].desired_image_count
        IN  /\ IF max # u32(0) /\ u32_le(max, min)
               THEN desired = max
               ELSE min # U32_MAX /\ desired = wrapping_add(min, u32(1))
            /\ u32_le(min, desired)
            /\ max = u32(0) \/ u32_le(desired, max)

DropDestroyCalls ==
    {"destroy_semaphore", "destroy_fence", "free_memory", "destroy_image_view", "destroy_image",
     "destroy_command_pool", "destroy_swapchain"}
DropDeviceCalls == DropDestroyCalls \cup {"device_wait_idle", "destroy_device"}

C14_TeardownOrder ==
    pc \in {"drop_destroy", "drop_device", "dropped"} =>
        /\ queue = <<>>
        /\ Len(frameLog) >= 1 /\ frameLog[1] = "device_wait_idle"
        /\ \A j \in Positions("destroy_device") :
            /\ \A i \in 1 .. Len(frameLog) :
                /\ frameLog[i] \in DropDestroyCalls => i < j
                /\ i > j => frameLog[i] \notin DropDeviceCalls
        /\ pc = "dropped" =>
            /\ Cardinality(Positions("destroy_device")) = 1
            /\ \A c \in DropDestroyCalls : Called(c)

\* the renderer is dropped after frames were drawn and the set was rebuilt
C14_Witness ==
    /\ pc = "dropped"
    /\ frames >= 2
    /\ gen = MaxGen
    /\ Called("destroy_device")

\* ---------------------------------------------------------------------
\* C15: when the teardown has finished every object created from the
\* device during the lifetime of the renderer has been destroyed exactly
\* once: none is leaked, none is destroyed twice.
C15_EveryObjectDestroyedOnce ==
    pc = "dropped" =>
        /\ \A o \in DeviceObjects : destroys[o] = 1
        /\ \A k \in ResourceKinds : res[k] = 0

\* ---------------------------------------------------------------------
\* C16: write_data_direct called with more elements than buffer_len, the
\* element capacity the buffer was created with, fails its capacity
\* assertion and leaves the buffer memory as it was; called with at most
\* buffer_len elements on a host-visible, host-coherent buffer it passes
\* the assertions and the data is written.
C16_CapacityAssertion ==
    [][writes' = writes + 1 =>
        IF Len(last_data') > params["staging_buffer"].buffer_len
        THEN /\ write_outcome' = "assert_failed"
             /\ memory' = memory
        ELSE host_access_asserts(Buffer("staging_buffer")) =>
                /\ write_outcome' = "written"
                /\ SubSeq(memory', 1, Len(last_data')) = last_data']_vars

\* ---------------------------------------------------------------------
\* C17: write_from_staging proceeds only if the destination has
\* transfer-destination usage, the staging buffer has transfer-source usage
\* and the staging size is at most the destination size; if one of the three
\* fails the call panics with the fences, the command buffers and the queue
\* as they were and nothing is ever submitted; otherwise the call records
\* exactly one buffer copy of the staging buffer's size and submits it once.
StagingConditions ==
    /\ "TRANSFER_DST" \in params["vertex_buffer"].usage
    /\ "TRANSFER_SRC" \in params["staging_buffer"].usage
    /\ elem_size * params["staging_buffer"].buffer_len
         <= elem_size * params["vertex_buffer"].buffer_len

CopiesIn(commands) == {i \in 1 .. Len(commands) : commands[i] = "cmd_copy_buffer"}

C17_StagingCopy ==
    /\ [](~StagingConditions =>
            /\ ~Called("queue_submit")
            /\ CopiesIn(cmds["setup"]) = {}
            /\ \A i \in 1 .. Len(queue) : queue[i].kind # "copy")
    /\ [](bpos = "panicked" /\ live["vertex_buffer"] = "live" => ~StagingConditions)
    /\ [][/\ (bpos = "ready" /\ bpos' = "panicked") =>
                UNCHANGED <<fence, cmdbuf, cmds, queue>>
          /\ (fence["setup"] /\ ~fence'["setup"]) =>
                /\ cmds'["setup"] = <<"cmd_copy_buffer">>
                /\ Len(copy_regions') = 1
                /\ copy_regions'[1].size = elem_size * params["staging_buffer"].buffer_len
                /\ Len(queue') = Len(queue) + 1
                /\ queue'[Len(queue')].kind = "copy"
                /\ queue'[Len(queue')].cmds = cmds'["setup"]
                /\ SubSeq(queue', 1, Len(queue)) = queue
                /\ Cardinality({i \in 1 .. Len(frameLog') : frameLog'[i] = "queue_submit"}) = 1
                /\ Cardinality({i \in 1 .. Len(frameLog') : frameLog'[i] = "cmd_copy_buffer"}) = 1]_vars

\* a copy was submitted and executed, and a second one is queued
C17_Witness ==
    /\ bpos = "ready"
    /\ StagingConditions
    /\ Called("queue_submit")
    /\ Len(queue) = 1
    /\ queue[1].kind = "copy"
    /\ params["staging_buffer"].buffer_len < params["vertex_buffer"].buffer_len

\* ---------------------------------------------------------------------
\* C18: a typed buffer is destroyed by freeing its memory first and
\* destroying the buffer handle second, the reverse of the order of
\* creation (handle created, then memory allocated and bound).
C18_MemoryFreedBeforeHandle ==
    /\ Called("create_buffer") =>
        /\ Precedes("create_buffer", "allocate_memory")
        /\ Precedes("allocate_memory", "bind_buffer_memory")
    /\ (\E b \in Buffers : live[b] = "destroyed") =>
        frameLog = <<"free_memory", "destroy_buffer">>

\* ---------------------------------------------------------------------
\* C19: on a host-visible, host-coherent buffer of capacity buffer_len a
\* write_data_direct of at most buffer_len elements succeeds, and reading
\* the first Len(data) elements back gives exactly data, with a persistent
\* mapping and with map/copy/unmap per call alike: the write starts at the
\* first element and overwrites what an earlier write left there.
C19_WriteThenReadback ==
    (/\ writes > 0
     /\ host_access_asserts(Buffer("staging_buffer"))
     /\ Len(last_data) <= params["staging_buffer"].buffer_len)
        => /\ write_outcome = "written"
           /\ readback(Len(last_data)) = last_data

\* a second, shorter write over a first one, mapped per call
C19_Witness ==
    /\ writes = 2
    /\ write_outcome = "written"
    /\ ~Buffer("staging_buffer").mapping
    /\ Called("map_memory")
    /\ Len(last_data) = 1
    /\ params["staging_buffer"].buffer_len = 2
    /\ memory[2] \in Values
    /\ memory[2] # last_data[1]

\* ---------------------------------------------------------------------
\* C21: a frame that met a recoverable condition (out-of-date or suboptimal,
\* from acquire or from present) does not end the loop, and the draw_frame
\* call that follows it does not go to its acquire on the set the condition
\* was reported for: it rebuilds the set first, so that one frame at most is
\* dropped for a resize.
Recoverable == {"out_of_date", "suboptimal"}
FrameDegraded == acquireResult \in Recoverable \/ presentResult \in Recoverable

C21_OneFrameDroppedPerResize ==
    /\ [](FrameDegraded => pc # "panicked")
    /\ [][(pc = "idle" /\ Called("acquire_next_image") /\ FrameDegraded) => pc' # "acquire"]_vars

\* ---------------------------------------------------------------------
\* C24: every draw command buffer that is submitted contains, in this
\* order: the barrier that takes the acquired color image to
\* color-attachment-optimal, begin rendering, the binds of pipeline, vertex
\* buffer, index buffer and descriptor set, the dynamic viewport and
\* scissor, exactly one indexed draw, end rendering and the barrier that
\* takes the color image to the presentation layout; every indexed draw
\* has a pipeline bind and both dynamic states before it.
RECURSIVE ContainsInOrder(_, _)
ContainsInOrder(commands, names) ==
    IF names = <<>> THEN TRUE
    ELSE IF commands = <<>> THEN FALSE
    ELSE IF Head(commands) = Head(names)
         THEN ContainsInOrder(Tail(commands), Tail(names))
         ELSE ContainsInOrder(Tail(commands), names)

DrawCommandsClaimed ==
    <<"pipeline_barrier", "begin_rendering", "bind_pipeline", "bind_vertex_buffers",
      "bind_index_buffer", "bind_descriptor_sets", "set_viewport", "set_scissor",
      "draw_indexed", "end_rendering", "pipeline_barrier">>

CommandPositions(commands, name) == {i \in 1 .. Len(commands) : commands[i] = name}

C24_DrawCommandSequence ==
    \A j \in 1 .. Len(queue) :
        queue[j].kind = "draw" =>
            /\ ContainsInOrder(queue[j].cmds, DrawCommandsClaimed)
            /\ Cardinality(CommandPositions(queue[j].cmds, "draw_indexed")) = 1
            /\ \A d \in CommandPositions(queue[j].cmds, "draw_indexed") :
                \A name \in {"bind_pipeline", "set_viewport", "set_scissor"} :
                    \E i \in CommandPositions(queue[j].cmds, name) : i < d

\* ---------------------------------------------------------------------
\* C28: acquire_next_image is given the present-complete semaphore only when
\* the semaphore is unsignaled and nothing waits on it: no draw submission
\* is unfinished and no earlier acquire is still to signal it; the semaphore
\* never holds more than one signal.
C28_AcquireWithIdleSemaphore ==
    /\ [](sem["present_complete"] <= 1)
    /\ [][(pc = "acquire" /\ pc' = "rs_wait") =>
            /\ sem["present_complete"] = 0
            /\ ~InFlight("draw")
            /\ relPending = {}]_vars

\* ---------------------------------------------------------------------
\* C26: in every resize epoch the submission that transitions the depth
\* image of the epoch is submitted before any draw submission of that epoch,
\* on the one queue; it takes the setup command buffer and the setup fence,
\* waits on and signals no semaphore, and the draw command buffer and the
\* draw fence are taken by draw submissions only.
DrawSubmitted == cur = "draw" /\ pc \in {"present", "idle", "panicked"} /\ Called("queue_submit")

C26_SetupBeforeDraw ==
    /\ \A j \in 1 .. Len(queue) :
        /\ queue[j].kind = "setup" =>
            /\ queue[j].cb = "setup"
            /\ queue[j].fence = "setup"
            /\ queue[j].wait = {}
            /\ queue[j].signal = {}
            /\ queue[j].cmds = <<"pipeline_barrier">>
        /\ (queue[j].cb = "draw" \/ queue[j].fence = "draw") => queue[j].kind = "draw"
        /\ queue[j].kind = "draw" =>
            \A i \in 1 .. Len(queue) :
                (queue[i].kind = "setup" /\ queue[i].gen = queue[j].gen) => i < j
    /\ (cur = "setup" /\ pc \in {"rs_wait", "rs_reset_fence", "rs_reset_cb", "rs_record", "rs_submit"}) =>
        /\ \A i \in ImageIndices : img[i] = "pe"
        /\ \A j \in 1 .. Len(queue) : queue[j].gen < gen
    /\ (InDrawFrame \/ DrawSubmitted) =>
        /\ cmdbuf["setup"] \in {"pending", "invalid"}
        /\ cmds["setup"] = <<"pipeline_barrier">>
        /\ res["depth_image_view"] = gen

\* the first draw of the second epoch is queued behind the setup submission
\* of that epoch
C26_Witness ==
    /\ gen = 2
    /\ Len(queue) >= 2
    /\ queue[1].kind = "setup"
    /\ queue[1].gen = 2
    /\ queue[2].kind = "draw"
    /\ queue[2].gen = 2

\* ---------------------------------------------------------------------
\* C27: a reuse fence is unsignaled only while a submission that signals it
\* is unfinished or while the call that reset it is on its way to submit; in
\* every call that has returned each fence reset is followed by a queue
\* submit.  Hence a fence wait blocks forever only if a submission that
\* takes the fence stays unfinished forever: if every submission is
\* completed, every fence wait returns.
FenceHeld(c) ==
    \/ InFlight(c)
    \/ cur = c /\ pc \in {"rs_reset_cb", "rs_record", "rs_submit"}

FenceUnsignaledOnlyWhileHeld ==
    /\ \A c \in CommandBuffers : ~fence[c] => FenceHeld(c)
    /\ \A j \in 1 .. Len(queue) : queue[j].kind # "present" => queue[j].fence = queue[j].cb
    /\ pc \in {"idle", "present"} =>
        \A r \in Positions("reset_fences") : \E q \in Positions("queue_submit") : r < q

C27_FenceWaitsReturn ==
    /\ []FenceUnsignaledOnlyWhileHeld
    /\ \A c \in CommandBuffers :
        <>[](pc = "rs_wait" /\ cur = c) => <>[]InFlight(c)

\* a third frame waits on the draw fence, which the draw submission of the
\* second frame holds unsignaled
C27_Witness ==
    /\ pc = "rs_wait"
    /\ cur = "draw"
    /\ frames = 3
    /\ ~fence["draw"]
    /\ InFlight("draw")

\* ---------------------------------------------------------------------
\* C25: a rebuild destroys and creates the swapchain, its image views, the
\* depth image, its memory and its view, each once, and no other object:
\* the pipeline and its layout, the vertex and index buffers, the command
\* pool, the fences and the semaphores are neither destroyed nor created.
SetCreateCalls ==
    {"create_swapchain", "create_image_view", "create_image", "allocate_memory",
     "bind_image_memory"}
SetDestroyCalls == {"destroy_swapchain", "destroy_image_view", "destroy_image", "free_memory"}
\* calls of a rebuild that neither create nor destroy an object
SetUseCalls ==
    {"device_wait_idle", "wait_for_fences", "reset_fences", "reset_command_buffer", "record",
     "queue_submit"}
RebuildReturned == pc = "idle" /\ Called("create_swapchain")
InRebuild ==
    \/ pc \in {"cleanup_depth_wait", "cleanup_depth_destroy", "cleanup_swapchain_wait",
               "cleanup_swapchain_destroy", "cleanup_done", "new_swapchain", "new_depth_image",
               "new_depth_view"}
    \/ cur = "setup" /\ pc \in {"rs_wait", "rs_reset_fence", "rs_reset_cb", "rs_record", "rs_submit"}

C25_RebuildReplacesOnlyTheSet ==
    /\ (InRebuild \/ RebuildReturned) =>
        /\ \A o \in DeviceObjects : destroys[o] = 0
        /\ \A i \in 1 .. Len(frameLog) :
            frameLog[i] \in SetCreateCalls \cup SetDestroyCalls \cup SetUseCalls
    /\ RebuildReturned =>
        /\ \A k \in ResourceKinds : res[k] = gen
        /\ Cardinality(Positions("destroy_swapchain")) = 1
        /\ Cardinality(Positions("create_swapchain")) = 1
        /\ Cardinality(Positions("destroy_image")) = 1
        /\ Cardinality(Positions("create_image")) = 1
        /\ Cardinality(Positions("free_memory")) = 1
        /\ Cardinality(Positions("allocate_memory")) = 1
        /\ Cardinality(Positions("destroy_image_view")) = 2
        /\ Cardinality(Positions("create_image_view")) = 2

\* a rebuild that followed two frames has returned
C25_Witness ==
    /\ RebuildReturned
    /\ gen = 2
    /\ frames >= 2
    /\ cmdbuf["draw"] = "invalid"

\* ---------------------------------------------------------------------
\* C22: every redraw handler calls update_camera once, then draw_frame once,
\* and requests the next redraw last; whenever no handler is running, from
\* resumed on, a redraw request is outstanding.
C22_ContinuousRendering ==
    /\ pc \in {"idle", "panicked"} => redraw_requested
    /\ FrameReturned =>
        /\ Cardinality(Positions("update_camera")) = 1
        /\ Cardinality(Positions("acquire_next_image")) = 1
        /\ Cardinality(Positions("queue_present")) = 1
        /\ Cardinality(Positions("request_redraw")) = 1
        /\ frameLog[1] = "update_camera"
        /\ frameLog[Len(frameLog)] = "request_redraw"
        /\ updates = frames

\* ---------------------------------------------------------------------
\* C23: update_camera adds the sum of the MouseMotion deltas received since
\* the previous update_camera, times the sensitivity, to the camera angles,
\* sets both accumulators to zero and leaves the four pressed flags, the
\* speed and the sensitivity as they were.
RECURSIVE SumOf(_, _)
SumOf(deltas, axis) ==
    IF deltas = <<>> THEN 0 ELSE Head(deltas)[axis] + SumOf(Tail(deltas), axis)

C23_DeltasAppliedOnce ==
    [][updates' = updates + 1 =>
        /\ camera'.theta = camera.theta + SumOf(motions, 1) * controller.mouse_sens
        /\ camera'.phi = camera.phi + SumOf(motions, 2) * controller.mouse_sens
        /\ controller'.mouse_delta_x = 0
        /\ controller'.mouse_delta_y = 0
        /\ controller'.forward_pressed = controller.forward_pressed
        /\ controller'.backward_pressed = controller.backward_pressed
        /\ controller'.left_pressed = controller.left_pressed
        /\ controller'.right_pressed = controller.right_pressed
        /\ controller'.speed = controller.speed
        /\ controller'.mouse_sens = controller.mouse_sens]_vars

\* a second update_camera has applied two deltas, a key being held
C23_Witness ==
    /\ updates = 2
    /\ motions = <<>>
    /\ controller.mouse_delta_x = 0
    /\ controller.forward_pressed
    /\ camera.theta = -4
    /\ camera.phi = 159
    /\ camera.position.forward = 1

\* ---------------------------------------------------------------------
\* C30: once the descriptor components are built, the pool has room for at
\* least present_image_count sets and at least present_image_count uniform
\* buffer descriptors, and descriptor set i is bound to uniform buffer i.
C30_PoolCapacityAndBinding ==
    spos = "built" =>
        /\ descriptor.max_sets >= present_image_views
        /\ descriptors_of(descriptor.pool_sizes, "UNIFORM_BUFFER") >= present_image_views
        /\ Len(descriptor.set_buffers) = present_image_views
        /\ \A i \in 0 .. (present_image_views - 1) : descriptor.set_buffers[i + 1] = i

\* ---------------------------------------------------------------------
\* C29: the host writes the staging buffer only while no copy that reads
\* it is queued or executing, so that each copy transfers the data of the
\* update_vertices call that submitted it.
C29_NoWriteDuringCopy ==
    [][(writes' = writes + 1 /\ write_outcome' \in {"written", "out_of_bounds"}) =>
            \A j \in 1 .. Len(queue) : queue[j].kind # "copy"]_vars

====
